---- MODULE Spec2Model ----
(***************************************************************************)
(* GameService of the colour-pad elimination game: the session loop        *)
(* (KnitStart), the round engine (StartRound) and its helpers              *)
(* (weightedSample, computePadDistances, isPlayerOnCorrectPad).            *)
(*                                                                         *)
(* Numbers: intervals are kept in half seconds (the code steps by 0.5),    *)
(* fractions in hundredths (the constants are 0.3, 0.05, 0.1), pad weights *)
(* multiplied by the number of finite distances (the code divides by it).  *)
(* The game world is a line: the loser pad at -1, the lobby spawn at 0 and *)
(* pad i of the cloned map at i.                                           *)
(***************************************************************************)
EXTENDS Integers, Sequences, FiniteSets, TLC

\* ------------------------------------------------------------- bounds
MaxPads == 2
MaxTicks == 3
MaxProfileTicks == 8
MaxPool == 3
MaxWeight == 2
MaxCount == 4
MaxTotalPads == 20
MaxSites == 3
PadSpacing == 20

\* ------------------------------------------------- program constants
COLORS == <<"Red", "Yellow", "Green", "Blue", "Purple">>
INITIAL_TARGET_INTERVAL == 5
MIN_TARGET_INTERVAL == 2
INTERMISSION_DURATION == 10
START_TARGET_FRACTION == 30
FRACTION_DECREASE_PER_ROUND == 5
MIN_TARGET_FRACTION == 10
MaxAllowedMargin == 12

\* ------------------------------------------------------------ helpers
Max(a, b) == IF a >= b THEN a ELSE b
Min(a, b) == IF a <= b THEN a ELSE b
Abs(a) == IF a >= 0 THEN a ELSE 0 - a
Range(s) == {s[i] : i \in DOMAIN s}

RECURSIVE SumOver(_, _)
SumOver(f, S) ==
  IF S = {} THEN 0
  ELSE LET x == CHOOSE y \in S : TRUE IN f[x] + SumOver(f, S \ {x})

\* The players that can be connected: the two of the elimination scenario.
Players == {"P1", "P2"}
ColorNames == Range(COLORS)
None == "none"

\* Where a HumanoidRootPart is; NoBody when the player has no character/root part.
NoBody == [area |-> "nobody", idx |-> 0]
Lobby == [area |-> "lobby", idx |-> 0]
Loser == [area |-> "loser", idx |-> 0]
OnPad(i) == [area |-> "pad", idx |-> i]
Places == {Lobby, Loser} \cup {OnPad(i) : i \in 1..MaxPads}

\* Broadcast events (RemoteSignal FireAll) and the one-second waits between them.
PhaseEv(ph) == [kind |-> "phase", name |-> ph, n |-> 0]
CountEv(k) == [kind |-> "count", name |-> "", n |-> k]
TargetEv(c) == [kind |-> "target", name |-> c, n |-> 0]
WaitEv == [kind |-> "wait", name |-> "", n |-> 1]
NoEv == [kind |-> "none", name |-> "", n |-> 0]

\* ------------------------------------------------- DifficultyProfile
FractionUnfloored(targetIndex) ==
  START_TARGET_FRACTION - (targetIndex - 1) * FRACTION_DECREASE_PER_ROUND

Fraction(targetIndex) ==
  Max(MIN_TARGET_FRACTION,
      START_TARGET_FRACTION - (targetIndex - 1) * FRACTION_DECREASE_PER_ROUND)

NumCorrectNoFloorOfOne(totalPads, fraction) == (totalPads * fraction) \div 100

NumCorrect(totalPads, fraction) == Max(1, (totalPads * fraction) \div 100)

\* interval is in half seconds: interval - 0.5 is one half less.
NextIntervalNoFloor(interval) == interval - 1

NextInterval(interval) == Max(2 * MIN_TARGET_INTERVAL, interval - 1)

\* ---------------------------------------------------- WeightedSampler
WeightOf(weights, pad) == IF pad \in DOMAIN weights THEN weights[pad] ELSE 0

RECURSIVE TotalWeight(_, _)
TotalWeight(pool, weights) ==
  IF Len(pool) = 0 THEN 0
  ELSE WeightOf(weights, Head(pool)) + TotalWeight(Tail(pool), weights)

\* running after the first idx items of the pool
Running(pool, weights, idx) == TotalWeight(SubSeq(pool, 1, idx), weights)

\* The index the walk stops at: the first idx with pick <= running, else the
\* initial chosenIndex (the first item).
ChosenIndex(pool, weights, pick) ==
  LET hits == {idx \in 1..Len(pool) : pick <= Running(pool, weights, idx)}
  IN IF hits = {} THEN 1 ELSE CHOOSE idx \in hits : \A j \in hits : idx <= j

RemoveAtKeeps(pool, idx) == pool

RemoveAt(pool, idx) == SubSeq(pool, 1, idx - 1) \o SubSeq(pool, idx + 1, Len(pool))

\* math.random() * totalWeight lies in [0, totalWeight); with whole weights the
\* walk distinguishes only pick = 0 and the intervals (k-1, k], k = 1..totalWeight.
Picks(pool, weights) == 0..Max(0, TotalWeight(pool, weights))

SampleStepTakesLast(pool, weights, pick) ==
  IF TotalWeight(pool, weights) <= 0
  THEN [item |-> pool[Len(pool)], rest |-> SubSeq(pool, 1, Len(pool) - 1)]
  ELSE LET idx == ChosenIndex(pool, weights, pick)
       IN [item |-> pool[idx], rest |-> RemoveAt(pool, idx)]

\* One iteration of the for loop on a non-empty pool.
SampleStep(pool, weights, pick) ==
  IF TotalWeight(pool, weights) <= 0
  THEN [item |-> Head(pool), rest |-> Tail(pool)]
  ELSE LET idx == ChosenIndex(pool, weights, pick)
       IN [item |-> pool[idx], rest |-> RemoveAt(pool, idx)]

RECURSIVE SampleFrom(_, _, _, _)
SampleFrom(pool, weights, iterations, result) ==
  IF iterations <= 0 \/ Len(pool) = 0 THEN {result}
  ELSE UNION {LET s == SampleStep(pool, weights, pick)
              IN SampleFrom(s.rest, weights, iterations - 1, Append(result, s.item))
              : pick \in Picks(pool, weights)}

\* Every result the random draws can produce.
weightedSample(padList, weights, count) == SampleFrom(padList, weights, count, <<>>)

\* ------------------------------------------------------------- state
VARIABLES
  pc,             \* where the server coroutine is (KnitStart / StartRound)
  countdown,      \* KnitStart: countdown
  log,            \* broadcasts and one-second waits since the last round returned
  lastBroadcast,  \* the most recent broadcast of the session
  phase,          \* the phase of the most recent UpdatePhase broadcast
  uiPhase,        \* a client that receives every broadcast: the phase its UI shows
  sessionTarget,  \* the target colour of the most recent tick of the session
  online,         \* Players.GetPlayers()
  hrpAt,          \* player -> where its HumanoidRootPart is, or NoBody
  clonedMap,      \* a cloned Overworld is parented to Workspace
  padColor,       \* pad.Color of the BasePart children of ColorPads, in GetChildren order
  activePlayers,
  interval,       \* half seconds
  lastColorName,
  targetIndex,
  firstCycle,
  target,
  totalPads,
  fraction,       \* hundredths
  numCorrect,
  correctSet,
  t,              \* half seconds
  waited,         \* task.wait(1) calls of the tick's wait loop
  toCheck,
  loserCF,        \* getLoserSpawnCFrame() returned a CFrame in this elimination
  lobbyCF,        \* the teardown found a lobby spawn CFrame
  teardowns,      \* runs of the round teardown since StartRound was entered
  wsPool, wsWeights, wsCount, wsI, wsResult, wsList   \* one call of weightedSample

sessionVars == <<countdown, log, lastBroadcast, phase, uiPhase, sessionTarget>>
worldVars == <<online, hrpAt>>
mapVars == <<clonedMap, padColor>>
roundVars == <<activePlayers, interval, lastColorName, targetIndex, firstCycle>>
tickVars == <<target, totalPads, fraction, numCorrect, correctSet, t, waited, toCheck,
              loserCF>>
endVars == <<lobbyCF, teardowns>>
wsVars == <<wsPool, wsWeights, wsCount, wsI, wsResult, wsList>>
vars == <<pc, sessionVars, worldVars, mapVars, roundVars, tickVars, endVars, wsVars>>

HasBody(p) == hrpAt[p] # NoBody
PadList == 1..Len(padColor)

YieldPcsAnywhere ==
  {"lobby", "count", "lobbyWait", "startRound", "delay", "clone", "findPads",
   "waitPads", "abort", "gather", "select", "sample", "assign", "settle", "place",
   "broadcast", "wait", "eliminate", "check", "teardown"}

\* Suspension points (task.wait, WaitForChild): only here can anything else run.
YieldPcs == {"lobbyWait", "waitPads", "settle", "wait", "delay"}
\* Inside StartRound, from its first statement to its return.
RoundPcs == {"clone", "findPads", "waitPads", "abort", "gather", "select", "sample",
             "assign", "settle", "place", "broadcast", "wait", "eliminate", "check",
             "teardown"}
TickPcs == {"select", "sample", "assign", "settle", "place", "broadcast", "wait",
            "eliminate", "check"}

NoSample ==
  /\ wsPool = <<>> /\ wsWeights = <<>> /\ wsCount = 0
  /\ wsI = 0 /\ wsResult = <<>> /\ wsList = <<>>

Init ==
  /\ pc = "lobby"
  /\ countdown = 0
  /\ log = <<>>
  /\ lastBroadcast = NoEv
  /\ phase = None
  /\ uiPhase = "Lobby"
  /\ sessionTarget = None
  /\ online = {}
  /\ hrpAt = [p \in Players |-> NoBody]
  /\ clonedMap = FALSE
  /\ padColor = <<>>
  /\ activePlayers = {}
  /\ interval = 0
  /\ lastColorName = None
  /\ targetIndex = 0
  /\ firstCycle = FALSE
  /\ target = None
  /\ totalPads = 0
  /\ fraction = 0
  /\ numCorrect = 0
  /\ correctSet = {}
  /\ t = 0
  /\ waited = 0
  /\ toCheck = {}
  /\ loserCF = FALSE
  /\ lobbyCF = FALSE
  /\ teardowns = 0
  /\ NoSample

\* ------------------------------------------- GameController (client)
OnUpdatePhaseIgnoresRound(ui, ph) == IF ph = "Lobby" THEN "Lobby" ELSE ui

\* UpdatePhase.Connect: updateUI with phase "Lobby" or phase "Round"
OnUpdatePhase(ui, ph) ==
  IF ph = "Lobby" THEN "Lobby" ELSE IF ph = "Round" THEN "Round" ELSE ui

\* UpdateCountdown.Connect: updateUI with the seconds and phase "Lobby"
OnUpdateCountdown(ui, seconds) == "Lobby"

\* NewTargetColor.Connect: updateUI with the target and phase "Round"
OnNewTargetColor(ui, tgt) == "Round"

\* the handler of the signal the broadcast was fired on
Deliver(ui, ev) ==
  IF ev.kind = "phase" THEN OnUpdatePhase(ui, ev.name)
  ELSE IF ev.kind = "count" THEN OnUpdateCountdown(ui, ev.n)
  ELSE IF ev.kind = "target" THEN OnNewTargetColor(ui, ev.name)
  ELSE ui

\* FireAll: every broadcast is the session's latest and reaches the client; those
\* outside a round are logged.
FireAll(ev) ==
  /\ lastBroadcast' = ev
  /\ phase' = IF ev.kind = "phase" THEN ev.name ELSE phase
  /\ uiPhase' = Deliver(uiPhase, ev)
  /\ log' = IF pc \in RoundPcs THEN log ELSE Append(log, ev)

\* ---------------------------------------------------------- KnitStart
FireLobby ==
  /\ pc = "lobby"
  /\ FireAll(PhaseEv("Lobby"))
  /\ countdown' = INTERMISSION_DURATION
  /\ lobbyCF' = FALSE
  /\ teardowns' = 0
  /\ pc' = "count"
  /\ UNCHANGED <<sessionTarget, worldVars, mapVars, roundVars, tickVars, wsVars>>

AfterSecondSkips(n) == n - 2

\* countdown -= 1
AfterSecond(n) == n - 1

FireCountdown ==
  /\ pc = "count"
  /\ FireAll(CountEv(IF countdown > 0 THEN countdown ELSE 0))
  /\ pc' = IF countdown > 0 THEN "lobbyWait" ELSE "startRound"
  /\ UNCHANGED <<countdown, sessionTarget, worldVars, mapVars, roundVars, tickVars,
                 endVars, wsVars>>

\* task.wait(1) returns; countdown -= 1
LobbySecond ==
  /\ pc = "lobbyWait"
  /\ countdown' = AfterSecond(countdown)
  /\ log' = Append(log, WaitEv)
  /\ pc' = "count"
  /\ UNCHANGED <<lastBroadcast, phase, uiPhase, sessionTarget, worldVars, mapVars,
                 roundVars, tickVars,
                 endVars, wsVars>>

\* task.wait(2) after StartRound returned
DelayDoneRestartsRound ==
  /\ pc = "delay"
  /\ pc' = "startRound"
  /\ UNCHANGED <<sessionVars, worldVars, mapVars, roundVars, tickVars, endVars, wsVars>>

DelayDone ==
  /\ pc = "delay"
  /\ pc' = "lobby"
  /\ UNCHANGED <<sessionVars, worldVars, mapVars, roundVars, tickVars, endVars, wsVars>>

\* --------------------------------------------------------- StartRound
RoundBeginSilent ==
  /\ pc = "startRound"
  /\ UNCHANGED <<lastBroadcast, phase, uiPhase>>
  /\ log' = <<>>
  /\ pc' = "clone"
  /\ UNCHANGED <<countdown, sessionTarget, worldVars, mapVars, roundVars, tickVars,
                 endVars, wsVars>>

\* UpdatePhase.FireAll("Round") on entry to StartRound
RoundBegin ==
  /\ pc = "startRound"
  /\ lastBroadcast' = PhaseEv("Round")
  /\ phase' = "Round"
  /\ uiPhase' = Deliver(uiPhase, PhaseEv("Round"))
  /\ log' = <<>>
  /\ pc' = "clone"
  /\ UNCHANGED <<countdown, sessionTarget, worldVars, mapVars, roundVars, tickVars,
                 endVars, wsVars>>

CloneMap ==
  /\ pc = "clone"
  /\ \E overworld \in BOOLEAN :
       /\ clonedMap' = overworld
       /\ pc' = IF overworld THEN "findPads" ELSE "abort"
  /\ UNCHANGED <<sessionVars, worldVars, padColor, roundVars, tickVars, endVars, wsVars>>

\* The pads of the clone carry the template's colours, which no step reads.
FreshPads(n) == [i \in 1..n |-> None]

FindPads ==
  /\ pc \in {"findPads", "waitPads"}
  /\ \/ \E n \in 0..MaxPads : padColor' = FreshPads(n) /\ pc' = "gather"
     \/ padColor' = padColor /\ pc' = IF pc = "findPads" THEN "waitPads" ELSE "abort"
  /\ UNCHANGED <<sessionVars, worldVars, clonedMap, roundVars, tickVars, endVars, wsVars>>

AbortRoundKeepsMap ==
  /\ pc = "abort"
  /\ UNCHANGED <<clonedMap, padColor>>
  /\ pc' = "delay"
  /\ UNCHANGED <<sessionVars, worldVars, roundVars, tickVars, endVars, wsVars>>

\* warn, clonedMap?.Destroy(), return
AbortRound ==
  /\ pc = "abort"
  /\ clonedMap' = FALSE
  /\ padColor' = <<>>
  /\ pc' = "delay"
  /\ UNCHANGED <<sessionVars, worldVars, roundVars, tickVars, endVars, wsVars>>

GatherPlayers ==
  /\ pc = "gather"
  /\ activePlayers' = {p \in online : HasBody(p)}
  /\ interval' = 2 * INITIAL_TARGET_INTERVAL
  /\ lastColorName' = None
  /\ targetIndex' = 1
  /\ firstCycle' = TRUE
  /\ pc' = "select"
  /\ UNCHANGED <<sessionVars, worldVars, mapVars, tickVars, endVars, wsVars>>

\* ------------------------------------------------------- PadWeighting
Coord(place) ==
  IF place.area = "pad" THEN place.idx ELSE IF place.area = "lobby" THEN 0 ELSE 0 - 1

\* closest distance from a pad to an active player with a root part; math.huge if none
computePadDistances(pads, players) ==
  [pad \in pads |->
     LET ds == {Abs(Coord(hrpAt[p]) - pad) : p \in {q \in players : HasBody(q)}}
     IN IF ds = {} THEN [finite |-> FALSE, d |-> 0]
        ELSE [finite |-> TRUE, d |-> CHOOSE x \in ds : \A y \in ds : x <= y]]

\* countDist, and 1 in its place when it is 0: every weight is kept multiplied by it
WeightScale(padDistances) ==
  Max(1, Cardinality({pad \in DOMAIN padDistances : padDistances[pad].finite}))

\* averageDistance * WeightScale
ScaledAverage(padDistances) ==
  LET fin == {pad \in DOMAIN padDistances : padDistances[pad].finite}
  IN SumOver([pad \in fin |-> padDistances[pad].d], fin)

\* (min(d, averageDistance + 12) + 1) * WeightScale
PadWeightsUncapped(pads, padDistances) ==
  LET k == WeightScale(padDistances)
      maxAllowed == ScaledAverage(padDistances) + MaxAllowedMargin * k
  IN [pad \in pads |->
        (IF padDistances[pad].finite THEN padDistances[pad].d * k ELSE maxAllowed) + k]

PadWeights(pads, padDistances) ==
  LET k == WeightScale(padDistances)
      maxAllowed == ScaledAverage(padDistances) + MaxAllowedMargin * k
  IN [pad \in pads |->
        (IF padDistances[pad].finite
         THEN Min(padDistances[pad].d * k, maxAllowed)
         ELSE maxAllowed) + k]

\* GetChildren order as a list
RECURSIVE ListOf(_)
ListOf(n) == IF n <= 0 THEN <<>> ELSE Append(ListOf(n - 1), n)

\* --------------------------------------------------------- one tick
TargetChoicesAny(last) == ColorNames

\* the do/while redraws while the draw equals lastColorName
TargetChoices(last) == {c \in ColorNames : last = None \/ c # last}

SelectTarget ==
  /\ pc = "select"
  /\ \E c \in TargetChoices(lastColorName) :
       /\ target' = c
       /\ lastColorName' = c
       /\ sessionTarget' = c
  /\ pc' = "sample"
  /\ UNCHANGED <<countdown, log, lastBroadcast, phase, uiPhase, worldVars, mapVars,
                 activePlayers,
                 interval, targetIndex, firstCycle, totalPads, fraction, numCorrect,
                 correctSet, t, waited, toCheck, loserCF, endVars, wsVars>>

SamplePads ==
  /\ pc = "sample"
  /\ LET pads == Len(padColor)
         frac == Fraction(targetIndex)
         correct == NumCorrect(pads, frac)
         padDistances == computePadDistances(PadList, activePlayers)
     IN /\ totalPads' = pads
        /\ fraction' = frac
        /\ numCorrect' = correct
        /\ \E weights \in {PadWeights(PadList, padDistances)} :
             \E chosenCorrect \in weightedSample(ListOf(pads), weights, correct) :
               correctSet' = Range(chosenCorrect)
  /\ pc' = "assign"
  /\ UNCHANGED <<sessionVars, worldVars, mapVars, roundVars, target, t, waited, toCheck,
                 loserCF, endVars, wsVars>>

OtherChoicesAny(tgt) == ColorNames

\* the do/while redraws while the draw equals the target
OtherChoices(tgt) == {c \in ColorNames : c # tgt}

AssignColors ==
  /\ pc = "assign"
  /\ \E choice \in [PadList \ correctSet -> OtherChoices(target)] :
       padColor' = [pad \in PadList |->
                      IF pad \in correctSet THEN target ELSE choice[pad]]
  /\ pc' = IF firstCycle THEN "settle" ELSE "broadcast"
  /\ UNCHANGED <<sessionVars, worldVars, clonedMap, roundVars, tickVars, endVars, wsVars>>

\* task.wait(0.15) returns
Settle ==
  /\ pc = "settle"
  /\ pc' = "place"
  /\ UNCHANGED <<sessionVars, worldVars, mapVars, roundVars, tickVars, endVars, wsVars>>

PlacePlayersUnguarded ==
  /\ pc = "place"
  /\ LET movers == {p \in activePlayers : HasBody(p)}
     IN \E pad \in [movers -> 1..Max(1, Len(padColor))] :
          hrpAt' = [p \in Players |-> IF p \in movers THEN OnPad(pad[p]) ELSE hrpAt[p]]
  /\ firstCycle' = FALSE
  /\ pc' = "broadcast"
  /\ UNCHANGED <<sessionVars, online, mapVars, activePlayers, interval, lastColorName,
                 targetIndex, tickVars, endVars, wsVars>>

PlacePlayersEveryTick ==
  /\ pc = "place"
  /\ LET movers == {p \in activePlayers : HasBody(p) /\ totalPads > 0}
     IN \E pad \in [movers -> PadList] :
          hrpAt' = [p \in Players |-> IF p \in movers THEN OnPad(pad[p]) ELSE hrpAt[p]]
  /\ firstCycle' = firstCycle
  /\ pc' = "broadcast"
  /\ UNCHANGED <<sessionVars, online, mapVars, activePlayers, interval, lastColorName,
                 targetIndex, tickVars, endVars, wsVars>>

\* after the settle wait: every active player with a root part onto a random pad
PlacePlayers ==
  /\ pc = "place"
  /\ LET movers == {p \in activePlayers : HasBody(p) /\ totalPads > 0}
     IN \E pad \in [movers -> PadList] :
          hrpAt' = [p \in Players |-> IF p \in movers THEN OnPad(pad[p]) ELSE hrpAt[p]]
  /\ firstCycle' = FALSE
  /\ pc' = "broadcast"
  /\ UNCHANGED <<sessionVars, online, mapVars, activePlayers, interval, lastColorName,
                 targetIndex, tickVars, endVars, wsVars>>

BroadcastTarget ==
  /\ pc = "broadcast"
  /\ FireAll(TargetEv(target))
  /\ t' = interval
  /\ pc' = "wait"
  /\ UNCHANGED <<countdown, sessionTarget, worldVars, mapVars, roundVars, target,
                 totalPads, fraction, numCorrect, correctSet, waited, toCheck, loserCF,
                 endVars, wsVars>>

\* iterations of: while (t > 0) { task.wait(1); t -= 1 }
RECURSIVE WaitsFor(_)
WaitsFor(tt) == IF tt > 0 THEN 1 + WaitsFor(tt - 2) ELSE 0

WaitIntervalRoundsDown ==
  /\ pc = "wait"
  /\ waited' = t \div 2
  /\ t' = t - 2 * (t \div 2)
  /\ pc' = "eliminate"
  /\ UNCHANGED <<sessionVars, worldVars, mapVars, roundVars, target, totalPads, fraction,
                 numCorrect, correctSet, toCheck, loserCF, endVars, wsVars>>

\* The wait loop runs to its end; whatever happens during its waits has happened at
\* pc = "wait" before this step.
WaitInterval ==
  /\ pc = "wait"
  /\ waited' = WaitsFor(t)
  /\ t' = t - 2 * WaitsFor(t)
  /\ pc' = "eliminate"
  /\ UNCHANGED <<sessionVars, worldVars, mapVars, roundVars, target, totalPads, fraction,
                 numCorrect, correctSet, toCheck, loserCF, endVars, wsVars>>

isPlayerOnAnyPad(player, tgt) ==
  /\ HasBody(player)
  /\ hrpAt[player].area = "pad"
  /\ hrpAt[player].idx \in PadList

\* the ray down from the root part hits a part under ColorPads of the target colour
isPlayerOnCorrectPad(player, tgt) ==
  /\ HasBody(player)
  /\ hrpAt[player].area = "pad"
  /\ hrpAt[player].idx \in PadList
  /\ padColor[hrpAt[player].idx] = tgt

EliminateClearsPads ==
  /\ pc = "eliminate"
  /\ toCheck' = activePlayers
  /\ activePlayers' = {p \in activePlayers : isPlayerOnCorrectPad(p, target)}
  /\ padColor' = FreshPads(Len(padColor))
  /\ UNCHANGED <<loserCF, hrpAt>>
  /\ pc' = "check"
  /\ UNCHANGED <<sessionVars, online, clonedMap, interval, lastColorName, targetIndex,
                 firstCycle, target, totalPads, fraction, numCorrect, correctSet, t,
                 waited, endVars, wsVars>>

EliminateJudgesEveryone ==
  /\ pc = "eliminate"
  /\ toCheck' = activePlayers
  /\ activePlayers' = {p \in online : isPlayerOnCorrectPad(p, target)}
  /\ \E loserCFrame \in BOOLEAN :
       /\ loserCF' = loserCFrame
       /\ hrpAt' = [p \in Players |->
                      IF p \in activePlayers /\ ~isPlayerOnCorrectPad(p, target)
                         /\ HasBody(p) /\ loserCFrame
                      THEN Loser ELSE hrpAt[p]]
  /\ pc' = "check"
  /\ UNCHANGED <<sessionVars, online, mapVars, interval, lastColorName, targetIndex,
                 firstCycle, target, totalPads, fraction, numCorrect, correctSet, t,
                 waited, endVars, wsVars>>

\* the elimination loop over a snapshot of the ActiveSet
Eliminate ==
  /\ pc = "eliminate"
  /\ toCheck' = activePlayers
  /\ activePlayers' = {p \in activePlayers : isPlayerOnCorrectPad(p, target)}
  /\ \E loserCFrame \in BOOLEAN :
       /\ loserCF' = loserCFrame
       /\ hrpAt' = [p \in Players |->
                      IF p \in activePlayers /\ ~isPlayerOnCorrectPad(p, target)
                         /\ HasBody(p) /\ loserCFrame
                      THEN Loser ELSE hrpAt[p]]
  /\ pc' = "check"
  /\ UNCHANGED <<sessionVars, online, mapVars, interval, lastColorName, targetIndex,
                 firstCycle, target, totalPads, fraction, numCorrect, correctSet, t,
                 waited, endVars, wsVars>>

RoundOverNever(remaining) == FALSE

RoundOverAtOne(remaining) == remaining <= 1

\* if (remaining === 0) break
RoundOver(remaining) == remaining = 0

CheckRemaining ==
  /\ pc = "check"
  /\ IF RoundOver(Cardinality(activePlayers))
     THEN /\ pc' = "teardown"
          /\ UNCHANGED <<interval, targetIndex>>
     ELSE /\ targetIndex < MaxTicks
          /\ interval' = NextInterval(interval)
          /\ targetIndex' = targetIndex + 1
          /\ pc' = "select"
  /\ toCheck' = {}
  /\ loserCF' = FALSE
  /\ t' = 0
  /\ waited' = 0
  /\ UNCHANGED <<sessionVars, worldVars, mapVars, activePlayers, lastColorName,
                 firstCycle, target, totalPads, fraction, numCorrect, correctSet,
                 endVars, wsVars>>

TeardownMovesSurvivors ==
  /\ pc = "teardown"
  /\ clonedMap' = FALSE
  /\ padColor' = <<>>
  /\ \E lobbySpawnCFrame \in BOOLEAN :
       /\ lobbyCF' = lobbySpawnCFrame
       /\ hrpAt' = [p \in Players |->
                      IF p \in activePlayers /\ HasBody(p) /\ lobbySpawnCFrame
                      THEN Lobby ELSE hrpAt[p]]
  /\ teardowns' = teardowns + 1
  /\ activePlayers' = {}
  /\ interval' = 0
  /\ lastColorName' = None
  /\ targetIndex' = 0
  /\ firstCycle' = FALSE
  /\ target' = None
  /\ totalPads' = 0
  /\ fraction' = 0
  /\ numCorrect' = 0
  /\ correctSet' = {}
  /\ pc' = "delay"
  /\ UNCHANGED <<sessionVars, online, t, waited, toCheck, loserCF, wsVars>>

TeardownKeepsMap ==
  /\ pc = "teardown"
  /\ clonedMap' = clonedMap
  /\ padColor' = <<>>
  /\ \E lobbySpawnCFrame \in BOOLEAN :
       /\ lobbyCF' = lobbySpawnCFrame
       /\ hrpAt' = [p \in Players |->
                      IF p \in online /\ HasBody(p) /\ lobbySpawnCFrame
                      THEN Lobby ELSE hrpAt[p]]
  /\ teardowns' = teardowns + 1
  /\ activePlayers' = {}
  /\ interval' = 0
  /\ lastColorName' = None
  /\ targetIndex' = 0
  /\ firstCycle' = FALSE
  /\ target' = None
  /\ totalPads' = 0
  /\ fraction' = 0
  /\ numCorrect' = 0
  /\ correctSet' = {}
  /\ pc' = "delay"
  /\ UNCHANGED <<sessionVars, online, t, waited, toCheck, loserCF, wsVars>>

\* clonedMap.Destroy(), everyone with a root part to the lobby spawn, return
Teardown ==
  /\ pc = "teardown"
  /\ clonedMap' = FALSE
  /\ padColor' = <<>>
  /\ \E lobbySpawnCFrame \in BOOLEAN :
       /\ lobbyCF' = lobbySpawnCFrame
       /\ hrpAt' = [p \in Players |->
                      IF p \in online /\ HasBody(p) /\ lobbySpawnCFrame
                      THEN Lobby ELSE hrpAt[p]]
  /\ teardowns' = teardowns + 1
  /\ activePlayers' = {}
  /\ interval' = 0
  /\ lastColorName' = None
  /\ targetIndex' = 0
  /\ firstCycle' = FALSE
  /\ target' = None
  /\ totalPads' = 0
  /\ fraction' = 0
  /\ numCorrect' = 0
  /\ correctSet' = {}
  /\ pc' = "delay"
  /\ UNCHANGED <<sessionVars, online, t, waited, toCheck, loserCF, wsVars>>

\* ------------------------------------------- players and the world
\* A Player object connects once: one that left is not the joiner while the
\* ActiveSet still holds it.
Join(p) ==
  /\ pc \in YieldPcs
  /\ p \notin online
  /\ p \notin activePlayers
  /\ online' = online \cup {p}
  /\ UNCHANGED <<pc, sessionVars, hrpAt, mapVars, roundVars, tickVars, endVars, wsVars>>

LeaveKeepsBody(p) ==
  /\ pc \in YieldPcs
  /\ p \in online
  /\ online' = online \ {p}
  /\ UNCHANGED <<pc, sessionVars, hrpAt, mapVars, roundVars, tickVars, endVars, wsVars>>

\* the Player leaves the game and its Character goes with it
Leave(p) ==
  /\ pc \in YieldPcs
  /\ p \in online
  /\ online' = online \ {p}
  /\ hrpAt' = [hrpAt EXCEPT ![p] = NoBody]
  /\ UNCHANGED <<pc, sessionVars, mapVars, roundVars, tickVars, endVars, wsVars>>

\* the character spawns, walks, falls or dies
MoveBody(p) ==
  /\ pc \in YieldPcs
  /\ p \in online
  /\ \E place \in (Places \cup {NoBody}) \ {hrpAt[p]} :
       hrpAt' = [hrpAt EXCEPT ![p] = place]
  /\ UNCHANGED <<pc, sessionVars, online, mapVars, roundVars, tickVars, endVars, wsVars>>

Next ==
  \/ FireLobby
  \/ FireCountdown
  \/ LobbySecond
  \/ DelayDone
  \/ RoundBegin
  \/ CloneMap
  \/ FindPads
  \/ AbortRound
  \/ GatherPlayers
  \/ SelectTarget
  \/ SamplePads
  \/ AssignColors
  \/ Settle
  \/ PlacePlayers
  \/ BroadcastTarget
  \/ WaitInterval
  \/ Eliminate
  \/ CheckRemaining
  \/ Teardown
  \/ \E p \in Players : Join(p)
  \/ \E p \in Players : Leave(p)
  \/ \E p \in Players : MoveBody(p)

Spec == Init /\ [][Next]_vars

\* ------------------------------------------ the session without end
\* The tick after tick MaxTicks, and every one after it: the loop goes on as before,
\* the interval still falling to its floor; the tick index is no longer told apart
\* above MaxTicks (with up to MaxPads + 1 pads numCorrect is 1 at every index).
LaterTick ==
  /\ pc = "check"
  /\ ~RoundOver(Cardinality(activePlayers))
  /\ targetIndex >= MaxTicks
  /\ interval' = NextInterval(interval)
  /\ targetIndex' = targetIndex
  /\ pc' = "select"
  /\ toCheck' = {}
  /\ loserCF' = FALSE
  /\ t' = 0
  /\ waited' = 0
  /\ UNCHANGED <<sessionVars, worldVars, mapVars, activePlayers, lastColorName,
                 firstCycle, target, totalPads, fraction, numCorrect, correctSet,
                 endVars, wsVars>>

\* The steps of the server coroutine: the scheduler resumes it after every wait.
Engine ==
  \/ FireLobby \/ FireCountdown \/ LobbySecond \/ DelayDone \/ RoundBegin
  \/ CloneMap \/ FindPads \/ AbortRound \/ GatherPlayers \/ SelectTarget
  \/ SamplePads \/ AssignColors \/ Settle \/ PlacePlayers \/ BroadcastTarget
  \/ WaitInterval \/ Eliminate \/ CheckRemaining \/ Teardown \/ LaterTick

NextLive == Next \/ LaterTick

SpecLive == Init /\ [][NextLive]_vars /\ WF_vars(Engine)

\* ------------------------------------- weightedSample, call by call
mainVars == <<sessionVars, worldVars, mapVars, roundVars, tickVars, endVars>>

InitSample ==
  /\ pc = "ws"
  /\ countdown = 0 /\ log = <<>> /\ lastBroadcast = NoEv /\ sessionTarget = None
  /\ phase = None /\ uiPhase = "Lobby"
  /\ online = {} /\ hrpAt = [p \in Players |-> NoBody]
  /\ clonedMap = FALSE /\ padColor = <<>>
  /\ activePlayers = {} /\ interval = 0 /\ lastColorName = None
  /\ targetIndex = 0 /\ firstCycle = FALSE
  /\ target = None /\ totalPads = 0 /\ fraction = 0 /\ numCorrect = 0
  /\ correctSet = {} /\ t = 0 /\ waited = 0 /\ toCheck = {} /\ loserCF = FALSE
  /\ lobbyCF = FALSE /\ teardowns = 0
  /\ \E n \in 0..MaxPool :
       /\ wsList = ListOf(n)
       /\ wsWeights \in [1..n -> 0..MaxWeight]
  /\ wsCount \in 0..MaxCount
  /\ wsPool = wsList
  /\ wsI = 0
  /\ wsResult = <<>>

\* one iteration of: for (let i = 0; i < count; i++)
WsIterate ==
  /\ pc = "ws"
  /\ wsI < wsCount
  /\ Len(wsPool) # 0
  /\ \E pick \in Picks(wsPool, wsWeights) :
       LET s == SampleStep(wsPool, wsWeights, pick)
       IN /\ wsResult' = Append(wsResult, s.item)
          /\ wsPool' = s.rest
  /\ wsI' = wsI + 1
  /\ UNCHANGED <<pc, mainVars, wsWeights, wsCount, wsList>>

WsReturn ==
  /\ pc = "ws"
  /\ wsI >= wsCount \/ Len(wsPool) = 0
  /\ pc' = "wsDone"
  /\ UNCHANGED <<mainVars, wsVars>>

NextSample == WsIterate \/ WsReturn

SpecSample == InitSample /\ [][NextSample]_vars

\* ------------------------------- the pad weights of one tick, alone
\* Pads lie PadSpacing apart, so that far pads are beyond the allowed distance.
SiteAt(i) == i * PadSpacing

InitWeights ==
  /\ pc = "weights"
  /\ countdown = 0 /\ log = <<>> /\ lastBroadcast = NoEv /\ sessionTarget = None
  /\ phase = None /\ uiPhase = "Lobby"
  /\ clonedMap = FALSE /\ padColor = <<>>
  /\ interval = 0 /\ lastColorName = None /\ targetIndex = 0 /\ firstCycle = FALSE
  /\ target = None /\ totalPads = 0 /\ fraction = 0 /\ numCorrect = 0
  /\ correctSet = {} /\ t = 0 /\ waited = 0 /\ toCheck = {} /\ loserCF = FALSE
  /\ lobbyCF = FALSE /\ teardowns = 0
  /\ hrpAt \in [Players -> {NoBody, Lobby, Loser} \cup {OnPad(SiteAt(i)) : i \in 1..MaxSites}]
  /\ activePlayers \in SUBSET Players
  /\ online = activePlayers
  /\ \E n \in 0..MaxSites : wsList = [i \in 1..n |-> SiteAt(i)]
  /\ wsPool = wsList
  /\ wsWeights = <<>>
  /\ wsCount = 0 /\ wsI = 0 /\ wsResult = <<>>

\* padDistances and weights as the tick computes them for its pad list
ComputeWeights ==
  /\ pc = "weights"
  /\ wsWeights' = PadWeights(Range(wsList), computePadDistances(Range(wsList), activePlayers))
  /\ pc' = "weightsDone"
  /\ UNCHANGED <<mainVars, wsPool, wsCount, wsI, wsResult, wsList>>

NextWeights == ComputeWeights

SpecWeights == InitWeights /\ [][NextWeights]_vars

\* ------------------------- the difficulty arithmetic of the tick loop
InitDifficulty ==
  /\ pc = "profile"
  /\ countdown = 0 /\ log = <<>> /\ lastBroadcast = NoEv /\ sessionTarget = None
  /\ phase = None /\ uiPhase = "Lobby"
  /\ online = {} /\ hrpAt = [p \in Players |-> NoBody]
  /\ clonedMap = FALSE /\ padColor = <<>>
  /\ activePlayers = {} /\ lastColorName = None /\ firstCycle = FALSE
  /\ target = None /\ correctSet = {} /\ t = 0 /\ waited = 0 /\ toCheck = {}
  /\ loserCF = FALSE /\ lobbyCF = FALSE /\ teardowns = 0
  /\ NoSample
  /\ totalPads \in 0..MaxTotalPads
  /\ interval = 2 * INITIAL_TARGET_INTERVAL
  /\ targetIndex = 1
  /\ fraction = Fraction(1)
  /\ numCorrect = NumCorrect(totalPads, Fraction(1))

\* the loop's arithmetic from one tick to the next, the pad count unchanged
ProfileTick ==
  /\ pc = "profile"
  /\ targetIndex < MaxProfileTicks
  /\ interval' = NextInterval(interval)
  /\ targetIndex' = targetIndex + 1
  /\ fraction' = Fraction(targetIndex')
  /\ numCorrect' = NumCorrect(totalPads, fraction')
  /\ UNCHANGED <<pc, sessionVars, worldVars, mapVars, activePlayers, lastColorName,
                 firstCycle, target, totalPads, correctSet, t, waited, toCheck, loserCF,
                 endVars, wsVars>>

\* The program, and beside it the tick arithmetic on pad counts up to MaxTotalPads.
NextDifficulty == Next \/ ProfileTick

SpecDifficulty == (Init \/ InitDifficulty) /\ [][NextDifficulty]_vars

\* ============================================================ claims
\* A target has been selected for the tick and the pads carry its assignment.
Assigned == pc \in {"settle", "place", "broadcast", "wait", "eliminate", "check"}

TargetPads == {pad \in 1..Len(padColor) : padColor[pad] = target}

StandsOnTargetPad(p) ==
  /\ hrpAt[p].area = "pad"
  /\ hrpAt[p].idx \in 1..Len(padColor)
  /\ padColor[hrpAt[p].idx] = target

ClaimedFraction(k) ==
  IF START_TARGET_FRACTION - (k - 1) * FRACTION_DECREASE_PER_ROUND >= MIN_TARGET_FRACTION
  THEN START_TARGET_FRACTION - (k - 1) * FRACTION_DECREASE_PER_ROUND
  ELSE MIN_TARGET_FRACTION

ClaimedNumCorrect(pads, k) ==
  IF (pads * ClaimedFraction(k)) \div 100 >= 1
  THEN (pads * ClaimedFraction(k)) \div 100 ELSE 1

ClaimedInterval(k) ==
  IF 2 * INITIAL_TARGET_INTERVAL - (k - 1) >= 2 * MIN_TARGET_INTERVAL
  THEN 2 * INITIAL_TARGET_INTERVAL - (k - 1) ELSE 2 * MIN_TARGET_INTERVAL

RECURSIVE CountdownLog(_)
CountdownLog(k) ==
  IF k <= 0 THEN <<CountEv(0)>> ELSE <<CountEv(k), WaitEv>> \o CountdownLog(k - 1)

LobbyLog == <<PhaseEv("Lobby")>> \o CountdownLog(INTERMISSION_DURATION)

IsPrefix(a, b) == Len(a) <= Len(b) /\ SubSeq(b, 1, Len(a)) = a

NoDuplicates(seq) == \A i, j \in DOMAIN seq : seq[i] = seq[j] => i = j

\* C1 (as stated): every tick's target colour differs from the target colour of the
\* tick before it in the session, the last tick of the previous round included.
C1_EveryTickDiffers ==
  [][(pc = "select" /\ pc' = "sample") => sessionTarget' # sessionTarget]_vars

\* C1 (amended): within one round, every tick after the first selects a target colour
\* different from the target colour of the tick before it.
C1_TicksDifferInRound ==
  [][(pc = "select" /\ pc' = "sample" /\ targetIndex > 1) => target' # target]_vars

C1_Witness == pc = "sample" /\ targetIndex >= 2 /\ target \in ColorNames

\* C2: after the colour assignment of a tick with at least one pad, the pads that
\* carry the target colour are exactly the sampled correct set, there are numCorrect
\* of them, and every other pad carries a palette colour that is not the target.
C2_AssignedColors ==
  (Assigned /\ totalPads >= 1) =>
    /\ TargetPads = correctSet
    /\ Cardinality(TargetPads) = numCorrect
    /\ \A pad \in 1..Len(padColor) :
         pad \notin correctSet => padColor[pad] \in ColorNames \ {target}

C2_Witness ==
  /\ pc = "broadcast"
  /\ totalPads = 2
  /\ Cardinality(TargetPads) = 1
  /\ \E pad \in 1..Len(padColor) : padColor[pad] \in ColorNames \ {target}

\* C3: after the elimination step the ActiveSet is exactly the players checked that
\* stand on a pad of the target colour, and every removed player that has a body is
\* at the loser destination when the lookup found one.
C3_Elimination ==
  pc = "check" =>
    /\ activePlayers = {p \in toCheck : StandsOnTargetPad(p)}
    /\ \A p \in toCheck \ activePlayers :
         (HasBody(p) /\ loserCF) => hrpAt[p] = Loser

C3_Witness ==
  /\ pc = "check"
  /\ Cardinality(toCheck) = 2
  /\ Cardinality(activePlayers) = 1
  /\ \E p \in toCheck \ activePlayers : hrpAt[p] = Loser

\* C4: when the ActiveSet is empty after the elimination step the next step is the
\* teardown, with no target selected or broadcast; the teardown is entered only that
\* way, runs once and returns from the round.
C4_EmptyEndsRound ==
  [][/\ (pc = "check" /\ activePlayers = {}) =>
          (pc' = "teardown" /\ UNCHANGED <<target, sessionTarget, lastBroadcast>>)
     /\ (pc' = "teardown" /\ pc # "teardown") => (pc = "check" /\ activePlayers = {})
     /\ pc = "teardown" => (pc' = "delay" /\ teardowns = 0 /\ teardowns' = 1)
     /\ (pc = "delay" /\ pc' # "delay") => pc' = "lobby"]_vars

C4_Witness == pc = "delay" /\ teardowns = 1 /\ sessionTarget \in ColorNames

\* C5 (as stated): no further tick begins when at most one player is left after an
\* elimination step.
C5_EndsAtOneOrZero ==
  [][(pc = "check" /\ Cardinality(activePlayers) <= 1) => pc' \notin TickPcs]_vars

\* C5 (amended): the round ends exactly when no player is left after an elimination
\* step; with one player or more left the next tick begins.
C5_EndsOnlyAtZero ==
  [][pc = "check" =>
       IF activePlayers = {} THEN pc' = "teardown"
       ELSE pc' = "select" /\ targetIndex' = targetIndex + 1]_vars

C5_Witness == pc = "select" /\ targetIndex >= 2 /\ Cardinality(activePlayers) = 1

C7_Interval ==
  /\ []((pc \in TickPcs \/ pc = "profile") =>
          /\ interval = ClaimedInterval(targetIndex)
          /\ interval >= 2 * MIN_TARGET_INTERVAL
          /\ interval <= 2 * INITIAL_TARGET_INTERVAL)
  /\ [][/\ ((pc = "check" /\ pc' = "select") \/ (pc = "profile" /\ interval' # interval)) =>
             /\ interval' <= interval
             /\ interval' = interval - 1 \/ interval' = 2 * MIN_TARGET_INTERVAL
        /\ (pc = "gather" /\ pc' = "select") =>
             (interval' = 2 * INITIAL_TARGET_INTERVAL /\ targetIndex' = 1)
        /\ (pc = "broadcast" /\ pc' = "wait") => t' = interval]_vars

C7_Witness ==
  /\ pc = "profile" /\ targetIndex = 8
  /\ interval = 2 * MIN_TARGET_INTERVAL

\* C8: the fraction of tick k of a round is START_TARGET_FRACTION at k = 1, never
\* below MIN_TARGET_FRACTION, does not grow from tick to tick, stays at the minimum
\* once there, and k grows by exactly 1 per tick from 1.
C8_Fraction ==
  /\ []((Assigned \/ pc \in {"assign", "profile"}) =>
          /\ fraction = ClaimedFraction(targetIndex)
          /\ fraction >= MIN_TARGET_FRACTION
          /\ targetIndex = 1 => fraction = START_TARGET_FRACTION)
  /\ [][/\ ((pc = "sample" /\ pc' = "assign" /\ targetIndex > 1)
            \/ (pc = "profile" /\ targetIndex' # targetIndex)) =>
             /\ fraction' <= fraction
             /\ fraction = MIN_TARGET_FRACTION => fraction' = MIN_TARGET_FRACTION
        /\ ((pc = "check" /\ pc' = "select") \/ (pc = "profile" /\ targetIndex' # targetIndex)) =>
             targetIndex' = targetIndex + 1
        /\ (pc = "gather" /\ pc' = "select") => targetIndex' = 1]_vars

C8_Witness ==
  /\ pc = "profile" /\ targetIndex = 6 /\ fraction = MIN_TARGET_FRACTION

\* C9: between the return of a round and the next invocation of the round engine the
\* broadcasts and one-second waits are, in order, Lobby, INTERMISSION_DURATION, wait,
\* INTERMISSION_DURATION - 1, wait, ..., 1, wait, 0.
C9_LobbyCountdown ==
  /\ pc \notin RoundPcs => IsPrefix(log, LobbyLog)
  /\ pc = "startRound" => log = LobbyLog
  /\ pc \in {"count", "lobbyWait", "startRound"} => Len(log) >= 1

C9_Witness == pc = "startRound" /\ sessionTarget \in ColorNames /\ log = LobbyLog

\* C10: a call of weightedSample returns a list without duplicates, of exactly
\* min(count, pool size) items, every one of them an item of the pool.
C10_SampleUnique ==
  pc = "wsDone" =>
    /\ NoDuplicates(wsResult)
    /\ Len(wsResult) = (IF wsCount <= Len(wsList) THEN wsCount ELSE Len(wsList))
    /\ Range(wsResult) \subseteq Range(wsList)

C10_Witness ==
  /\ pc = "wsDone" /\ Len(wsList) = 3 /\ wsCount = 4 /\ Len(wsResult) = 3
  /\ \E i \in 1..3 : wsWeights[i] = 0
  /\ \E i \in 1..3 : wsWeights[i] > 0

\* C11 (as stated): whenever the remaining pool has positive total weight, the item
\* the draw selects has positive weight, for every draw value in [0, total] and every
\* position of a zero-weight item in the pool.
C11_ZeroWeightNeverDrawn ==
  [][(pc = "ws" /\ wsI' = wsI + 1 /\ TotalWeight(wsPool, wsWeights) > 0) =>
       WeightOf(wsWeights, wsResult'[Len(wsResult')]) > 0]_vars

\* C12: when every weight of the pool is zero, the result of weightedSample is the
\* first min(count, pool size) items of the pool in their original order.
C12_ZeroWeightsFrontOrder ==
  (pc = "wsDone" /\ \A i \in DOMAIN wsWeights : wsWeights[i] = 0) =>
    wsResult = SubSeq(wsList, 1, IF wsCount <= Len(wsList) THEN wsCount ELSE Len(wsList))

C12_Witness ==
  /\ pc = "wsDone" /\ Len(wsList) = 3 /\ wsCount = 3
  /\ \A i \in 1..3 : wsWeights[i] = 0
  /\ wsResult = wsList

\* C13: when the map template or the pad container is missing, the round returns
\* with no tick run: from the Round broadcast to the return no target is selected or
\* broadcast, no pad is coloured, nobody joins the ActiveSet and the engine moves no
\* player; any cloned map is destroyed; the session loop goes on to the next Lobby.
C13_AbortOnlyThisRound ==
  /\ []((pc = "abort" \/ (pc = "delay" /\ teardowns = 0)) =>
          /\ lastBroadcast = PhaseEv("Round")
          /\ target = None /\ activePlayers = {} /\ targetIndex = 0
          /\ \A pad \in 1..Len(padColor) : padColor[pad] = None)
  /\ []((pc = "delay" /\ teardowns = 0) => (~clonedMap /\ padColor = <<>>))
  /\ [][/\ (pc \in {"clone", "findPads", "waitPads"} /\ pc' # pc) =>
             /\ pc' = "abort" => (~clonedMap' \/ pc = "waitPads")
             /\ pc' \in {"abort", "findPads", "waitPads", "gather"}
             /\ pc' # "abort" => clonedMap'
        /\ (pc \in {"clone", "findPads", "waitPads", "abort"} /\ pc' # pc) =>
             UNCHANGED <<target, sessionTarget, activePlayers, hrpAt, teardowns>>
        /\ pc = "abort" => (pc' = "delay" /\ ~clonedMap')
        /\ (pc = "delay" /\ pc' # pc) => pc' = "lobby"
        /\ (pc = "lobby" /\ pc' # pc) => lastBroadcast' = PhaseEv("Lobby")]_vars

C13_Witness ==
  /\ pc = "delay" /\ teardowns = 0 /\ ~clonedMap
  /\ sessionTarget \in ColorNames
  /\ \E p \in online : HasBody(p)

\* C14 (as stated): for any behaviour of players and of the map, Lobby is broadcast
\* again and again: every round returns.
C14_LobbyInfinitelyOften == []<>(pc = "count" /\ lastBroadcast = PhaseEv("Lobby"))

\* C14 (amended): the server coroutine always has a next step, and a round that is
\* aborted, or whose ActiveSet is empty after an elimination step, returns and Lobby
\* is broadcast again.
C14_EndedRoundsReachLobby ==
  /\ [](ENABLED Engine)
  /\ (pc = "abort" \/ (pc = "check" /\ activePlayers = {}))
       ~> (pc = "count" /\ lastBroadcast = PhaseEv("Lobby"))

C14_Witness ==
  /\ pc = "count" /\ lastBroadcast = PhaseEv("Lobby")
  /\ sessionTarget \in ColorNames /\ teardowns = 0 /\ online # {}

\* C15: from the colour assignment of a tick through its target broadcast, its wait
\* and its elimination check no pad's colour changes, whatever the players do; pad
\* colours are written only by the assignment step of a tick, and the pads exist from
\* the map's clone to its destruction at the end of the round.
C15_ColorsFrozenInTick ==
  [][/\ pc \in {"settle", "place", "broadcast", "wait", "eliminate", "check"} =>
          padColor' = padColor
     /\ (padColor' # padColor /\ Len(padColor') = Len(padColor)) => pc = "assign"
     /\ padColor' # padColor =>
          pc \in {"findPads", "waitPads", "assign", "abort", "teardown"}]_vars

C15_Witness ==
  /\ pc = "check" /\ targetIndex = 2 /\ waited >= 1
  /\ Len(padColor) = 2
  /\ \E pad \in 1..2 : padColor[pad] = target
  /\ \E pad \in 1..2 : padColor[pad] \in ColorNames \ {target}
  /\ activePlayers # {}

\* C16 (as stated): a round whose ActiveSet is empty at round start runs no tick: in
\* its first tick no target is broadcast and no tick interval is waited with an empty
\* ActiveSet (the ActiveSet shrinks only in the elimination step).
C16_NoTickWhenEmpty ==
  ~(/\ pc = "eliminate" /\ targetIndex = 1 /\ activePlayers = {}
    /\ target \in ColorNames /\ lastBroadcast = TargetEv(target)
    /\ waited >= 1)

\* C17 (as stated): with zero pads in the pad container the tick's numCorrect is 0.
C17_NumCorrectZero == (Assigned /\ totalPads = 0) => numCorrect = 0

\* C17 (amended): with zero pads numCorrect is 1 but the sample is empty, so no pad is
\* correct and none is coloured, nobody is moved onto a pad, and the tick still runs
\* its broadcast, its wait and its elimination, which removes every player of the
\* ActiveSet.
C17_ZeroPadsTick ==
  /\ []((Assigned /\ totalPads = 0) =>
          (numCorrect = 1 /\ correctSet = {} /\ padColor = <<>>))
  /\ [][(pc \in TickPcs /\ Len(padColor) = 0 /\ pc' # pc) =>
          /\ pc = "sample" => (pc' = "assign" /\ totalPads' = 0 /\ correctSet' = {})
          /\ pc = "assign" => (pc' = (IF firstCycle THEN "settle" ELSE "broadcast")
                                /\ padColor' = <<>>)
          /\ pc = "settle" => pc' = "place"
          /\ pc = "place" => (pc' = "broadcast" /\ hrpAt' = hrpAt)
          /\ pc = "broadcast" => (pc' = "wait" /\ lastBroadcast' = TargetEv(target))
          /\ pc = "wait" => (pc' = "eliminate" /\ waited' >= 1)
          /\ pc = "eliminate" => (pc' = "check" /\ activePlayers' = {})
          /\ pc = "check" => pc' = "teardown"]_vars

C17_Witness ==
  /\ pc = "check" /\ totalPads = 0 /\ numCorrect = 1
  /\ toCheck # {} /\ activePlayers = {}
  /\ waited >= 1 /\ lastBroadcast = TargetEv(target)
  /\ \E p \in toCheck : HasBody(p)

C19_NothingMidTick ==
  [][(pc \in TickPcs \ {"select", "check"} /\ pc' = pc) =>
       UNCHANGED <<online, hrpAt>>]_vars

\* C19 (amended): a disconnect, a join or a change of a player's body takes effect
\* only while the server coroutine is suspended in a wait; within a tick that is the
\* settle wait before the first placement and the wait loop after the broadcast, both
\* between the target selection and the elimination evaluation; nothing takes effect
\* between the elimination evaluation of one tick and the target selection of the
\* next.
C19_OnlyAtWaits ==
  [][(pc' = pc /\ (online' # online \/ hrpAt' # hrpAt)) =>
       /\ pc \in {"lobbyWait", "waitPads", "settle", "wait", "delay"}
       /\ pc \in TickPcs => pc \in {"settle", "wait"}
       /\ UNCHANGED <<sessionVars, mapVars, roundVars, tickVars, endVars>>]_vars

C19_Witness ==
  /\ pc = "eliminate" /\ targetIndex = 1
  /\ \E p \in activePlayers : p \in online /\ ~HasBody(p)
  /\ \E p \in online \ activePlayers : HasBody(p)

\* C20: the teardown of a round that ran a tick destroys the cloned map and, when a
\* lobby destination exists, puts every connected player that has a body at the lobby
\* spawn, whether eliminated before or joined late; players without a body are left
\* as they are; when no lobby destination exists nobody is moved; in both cases the
\* teardown completes and the round returns.
C20_Teardown ==
  /\ [](pc = "teardown" => (clonedMap /\ targetIndex >= 1 /\ teardowns = 0))
  /\ []((pc = "delay" /\ teardowns = 1) => (~clonedMap /\ padColor = <<>>))
  /\ [][pc = "teardown" =>
          /\ pc' = "delay" /\ ~clonedMap' /\ teardowns' = 1
          /\ UNCHANGED online
          /\ \A p \in Players :
               hrpAt'[p] = IF p \in online /\ HasBody(p) /\ lobbyCF'
                           THEN Lobby ELSE hrpAt[p]]_vars

C20_Witness ==
  /\ pc = "delay" /\ teardowns = 1 /\ lobbyCF
  /\ \A p \in Players : p \in online /\ hrpAt[p] = Lobby

\* C21 (as stated): in the first tick of a round the target colour has been broadcast
\* when the placement teleport moves the active players onto pads.
C21_BroadcastBeforePlacement ==
  [][(pc = "place" /\ hrpAt' # hrpAt) => lastBroadcast = TargetEv(target)]_vars

\* C22: the placement runs in the first tick of a round only, once, before that tick's
\* broadcast and wait: it puts every active player that has a body on a pad of the pad
\* list when the list is not empty, and moves nobody else; in later ticks the
\* assignment is followed by the broadcast at once, and no other step of the engine
\* puts a player on a pad.
C22_PlacementOncePerRound ==
  /\ [](pc \in {"settle", "place"} => (targetIndex = 1 /\ firstCycle))
  /\ []((pc \in TickPcs /\ targetIndex > 1) => ~firstCycle)
  /\ []((pc \in {"broadcast", "wait", "eliminate", "check"}) => ~firstCycle)
  /\ [][/\ pc = "place" =>
             /\ pc' = "broadcast" /\ ~firstCycle' /\ waited' = 0
             /\ \A p \in Players :
                  IF p \in activePlayers /\ HasBody(p) /\ Len(padColor) > 0
                  THEN hrpAt'[p].area = "pad" /\ hrpAt'[p].idx \in 1..Len(padColor)
                  ELSE hrpAt'[p] = hrpAt[p]
        /\ (pc = "assign" /\ targetIndex > 1) => pc' = "broadcast"
        /\ (pc = "assign" /\ targetIndex = 1) => pc' = "settle"
        /\ (pc' # pc /\ \E p \in Players :
                          hrpAt'[p] # hrpAt[p] /\ hrpAt'[p].area = "pad") =>
             pc = "place"]_vars

C22_Witness ==
  /\ pc = "broadcast" /\ targetIndex = 1 /\ ~firstCycle
  /\ activePlayers = Players
  /\ hrpAt["P1"] = OnPad(1) /\ hrpAt["P2"] = OnPad(2)

\* C23: from the first tick of a round to its teardown the ActiveSet never grows and
\* changes only in the elimination step (so it stays a subset of the set built at
\* round start, which is the connected players with a body at that moment); no join,
\* no move and no new body changes it; the elimination step evaluates exactly the
\* players still in the ActiveSet, so an eliminated player is not evaluated again.
C23_ActiveSetOnlyShrinks ==
  [][/\ pc \in TickPcs => activePlayers' \subseteq activePlayers
     /\ activePlayers' # activePlayers => pc \in {"gather", "eliminate", "teardown"}
     /\ pc = "gather" => activePlayers' = {p \in online : HasBody(p)}
     /\ pc = "eliminate" =>
          (toCheck' = activePlayers /\ activePlayers' \subseteq toCheck')
     /\ pc' = pc => activePlayers' = activePlayers]_vars

C23_Witness ==
  /\ pc = "eliminate" /\ targetIndex = 2
  /\ Cardinality(activePlayers) = 1
  /\ \E p \in online \ activePlayers : StandsOnTargetPad(p)

\* C24 (as stated): a connected active player whose body is absent at a tick's
\* elimination step is not removed from the ActiveSet by that step (and is left out
\* of the tick's pad distances).
C24_BodilessNotEliminated ==
  [][pc = "eliminate" =>
       \A p \in activePlayers : (p \in online /\ ~HasBody(p)) => p \in activePlayers']_vars

\* The active players that have a body, and a pad's distance to the nearest of them.
ActiveBodies == {p \in activePlayers : hrpAt[p] # NoBody}

NearestBody(pad) ==
  LET ds == {IF Coord(hrpAt[p]) >= pad THEN Coord(hrpAt[p]) - pad
             ELSE pad - Coord(hrpAt[p]) : p \in ActiveBodies}
  IN CHOOSE d \in ds : \A e \in ds : d <= e

\* C25: every pad's weight is min(dist(pad), averageDistance + 12) + 1, with dist the
\* distance to the nearest active player with a body and averageDistance the mean of
\* the pads' distances; so it is at least 1 and at most averageDistance + 13; when no
\* active player has a body every pad's weight is 0 + 12 + 1. (Weights, sums and
\* bounds are all multiplied by the number of pads, which the mean divides by.)
C25_PadWeights ==
  pc = "weightsDone" =>
    LET pads == Range(wsList)
        k == Cardinality(pads)
        sum == SumOver([pad \in pads |-> NearestBody(pad)], pads)
    IN /\ DOMAIN wsWeights = pads
       /\ ActiveBodies = {} =>
            \A pad \in pads : wsWeights[pad] = MaxAllowedMargin + 1
       /\ ActiveBodies # {} =>
            \A pad \in pads :
              /\ wsWeights[pad] =
                   (IF NearestBody(pad) * k <= sum + MaxAllowedMargin * k
                    THEN NearestBody(pad) * k ELSE sum + MaxAllowedMargin * k) + k
              /\ wsWeights[pad] >= k
              /\ wsWeights[pad] <= sum + (MaxAllowedMargin + 1) * k

C25_Witness ==
  /\ pc = "weightsDone" /\ Len(wsList) = 3 /\ ActiveBodies # {}
  /\ \E pad \in Range(wsList) : NearestBody(pad) = 0 /\ wsWeights[pad] = 3
  /\ \E pad \in Range(wsList) : wsWeights[pad] < (NearestBody(pad) + 1) * 3

\* C26: no cloned map exists outside a round invocation, none exists when a round
\* clones its map, a map comes into being only by that clone, and both ways out of a
\* round that has a map, the abort and the teardown, destroy it: at most one cloned
\* map exists at any time.
C26_OneClonedMap ==
  /\ [](pc \notin RoundPcs => ~clonedMap)
  /\ [](pc = "clone" => ~clonedMap)
  /\ [][/\ pc \in {"abort", "teardown"} => ~clonedMap'
        /\ (clonedMap' /\ ~clonedMap) => pc = "clone"
        /\ (pc \in RoundPcs /\ pc' \notin RoundPcs) => pc \in {"abort", "teardown"}]_vars

C26_Witness ==
  /\ pc = "findPads" /\ clonedMap
  /\ sessionTarget \in ColorNames /\ lastBroadcast = PhaseEv("Round")

\* C27: over the whole session the phase broadcasts alternate Lobby, Round, Lobby, ...
\* and the first is Lobby; a countdown broadcast is made only while the latest phase
\* broadcast is Lobby and a target broadcast only while it is Round; a round that
\* aborts for lack of pads has broadcast Round before it returns to the lobby.
C27_PhasesAlternate ==
  /\ [](lastBroadcast = NoEv <=> phase = None)
  /\ [](lastBroadcast.kind = "phase" => phase = lastBroadcast.name)
  /\ [](lastBroadcast.kind = "count" => phase = "Lobby")
  /\ [](lastBroadcast.kind = "target" => phase = "Round")
  /\ [](pc \in RoundPcs => phase = "Round")
  /\ [][/\ phase' # phase =>
             /\ lastBroadcast' = PhaseEv(phase')
             /\ phase = None => phase' = "Lobby"
             /\ phase = "Lobby" => phase' = "Round"
             /\ phase = "Round" => phase' = "Lobby"
        /\ (lastBroadcast' # lastBroadcast /\ lastBroadcast'.kind = "phase") =>
             phase' # phase
        /\ pc = "abort" => (phase = "Round" /\ phase' = "Round")]_vars

C27_Witness ==
  /\ pc = "startRound" /\ phase = "Lobby" /\ lastBroadcast = CountEv(0)
  /\ sessionTarget \in ColorNames

\* the waits of tick k as the specification lists them
ClaimedWaits(k) == IF k <= 8 THEN <<5, 5, 4, 4, 3, 3, 2, 2>>[k] ELSE 2

\* C28: the one-second waits of a tick number the tick's interval rounded up to whole
\* seconds; with the default constants ticks 1, 2, 3, ... wait 5, 5, 4, 4, 3, 3, 2, 2
\* and then 2 seconds, never more than the tick before and never fewer than
\* MIN_TARGET_INTERVAL.
C28_WaitsRoundUp ==
  /\ [](pc = "eliminate" =>
          /\ 2 * waited >= interval /\ 2 * waited < interval + 2
          /\ waited = ClaimedWaits(targetIndex)
          /\ waited >= MIN_TARGET_INTERVAL
          /\ t <= 0)
  /\ [](pc = "profile" =>
          /\ 2 * WaitsFor(interval) >= interval /\ 2 * WaitsFor(interval) < interval + 2
          /\ WaitsFor(interval) = ClaimedWaits(targetIndex)
          /\ WaitsFor(interval) >= MIN_TARGET_INTERVAL)
  /\ [][/\ (pc = "profile" /\ pc' = "profile") =>
             WaitsFor(interval') <= WaitsFor(interval)
        /\ (pc = "check" /\ pc' = "select") =>
             (WaitsFor(interval') <= waited /\ WaitsFor(interval') >= MIN_TARGET_INTERVAL)
        /\ (pc = "wait" /\ pc' = "eliminate") => waited' = WaitsFor(interval)]_vars

C28_Witness ==
  /\ pc = "eliminate" /\ targetIndex = 2 /\ interval = 9 /\ waited = 5

\* C29: after every broadcast a client that has received all of the session's
\* broadcasts in order shows the phase of the latest phase broadcast: no countdown
\* arrives during a Round phase and no target during a Lobby phase, so neither
\* handler changes the phase shown.
C29_ClientShowsPhase ==
  /\ [](lastBroadcast # NoEv => uiPhase = phase)
  /\ [][lastBroadcast' # lastBroadcast =>
           /\ uiPhase' = Deliver(uiPhase, lastBroadcast')
           /\ lastBroadcast'.kind = "count" => (phase = "Lobby" /\ uiPhase = "Lobby")
           /\ lastBroadcast'.kind = "target" => (phase = "Round" /\ uiPhase = "Round")
           /\ lastBroadcast'.kind \in {"count", "target"} => uiPhase' = uiPhase]_vars

C29_Witness ==
  /\ pc = "wait" /\ targetIndex = 2 /\ uiPhase = "Round" /\ phase = "Round"
  /\ lastBroadcast = TargetEv(target) /\ sessionTarget = target

====
